---------------------------- MODULE Spec2Model ----------------------------
(***************************************************************************)
(* Model of src/tiktok_tg.py: the link-detection -> resolution -> delivery *)
(* pipeline of the TikTok relay bot (handle_message and its helpers).      *)
(*                                                                         *)
(* Python strings that the code inspects are sequences of one-character    *)
(* strings; values that may be None are records [some, v].                 *)
(***************************************************************************)
EXTENDS Integers, Sequences, FiniteSets, TLC

\* ------------------------------------------------------------------ bounds
\* Handler slots (coroutine frames of handle_message that may exist).
NumInv == 2
\* Temporary-file names the filesystem can hand out.
NumPaths == 2
\* Largest number of chunks a download response body is streamed in.
MaxChunks == 2

\* Largest number of words and URLs in a text given to the link matcher.
MaxTokens == 2

Invs == 1..NumInv
Paths == 1..NumPaths

\* ----------------------------------------------------------------- strings
NoneStr == [some |-> FALSE, v |-> <<>>]
Some(s) == [some |-> TRUE, v |-> s]
\* Python truthiness of a str | None value.
TruthyStr(o) == o.some /\ Len(o.v) > 0

UpperToLower ==
    ("A" :> "a") @@ ("B" :> "b") @@ ("C" :> "c") @@ ("D" :> "d") @@
    ("E" :> "e") @@ ("F" :> "f") @@ ("G" :> "g") @@ ("H" :> "h") @@
    ("I" :> "i") @@ ("J" :> "j") @@ ("K" :> "k") @@ ("L" :> "l") @@
    ("M" :> "m") @@ ("N" :> "n") @@ ("O" :> "o") @@ ("P" :> "p") @@
    ("Q" :> "q") @@ ("R" :> "r") @@ ("S" :> "s") @@ ("T" :> "t") @@
    ("U" :> "u") @@ ("V" :> "v") @@ ("W" :> "w") @@ ("X" :> "x") @@
    ("Y" :> "y") @@ ("Z" :> "z")

LowerChar(c) == IF c \in DOMAIN UpperToLower THEN UpperToLower[c] ELSE c
\* str.lower()
Lower(s) == [k \in 1..Len(s) |-> LowerChar(s[k])]

\* Smallest index k >= from with s[k] \in cs, or Len(s) + 1.
RECURSIVE FindAny(_, _, _)
FindAny(s, cs, from) ==
    IF from > Len(s) THEN Len(s) + 1
    ELSE IF s[from] \in cs THEN from
    ELSE FindAny(s, cs, from + 1)

Contains(s, c) == \E k \in 1..Len(s) : s[k] = c

\* s[a..b] (1-based, inclusive); empty when b < a.
Slice(s, a, b) == IF b < a THEN <<>> ELSE SubSeq(s, a, b)

\* ------------------------------------------------- TikTok link detection
\* Characters the class \s of URL_RE matches, among those the texts use.
Whitespace == {" ", "\n", "\t"}
\* [^\s)]
UrlChar(c) == c \notin Whitespace /\ c # ")"

\* Does URL_RE's fixed prefix https?:// (IGNORECASE) match at position p?
\* Returns the index of the first character after the prefix, or 0.
PrefixEnd(t, p) ==
    LET low(k) == IF k <= Len(t) THEN LowerChar(t[k]) ELSE ""
        isHttp == low(p) = "h" /\ low(p + 1) = "t" /\ low(p + 2) = "t" /\ low(p + 3) = "p"
        q == IF low(p + 4) = "s" THEN p + 5 ELSE p + 4
        sep(k) == low(k) = ":" /\ low(k + 1) = "/" /\ low(k + 2) = "/"
    IN  IF isHttp /\ sep(q) THEN q + 3 ELSE 0

\* URL_RE match starting exactly at p: <<start, end>> or <<0, 0>>.
\* [^\s)]+ is greedy and needs at least one character.
MatchAt(t, p) ==
    LET b == PrefixEnd(t, p)
    IN  IF b = 0 \/ b > Len(t) \/ ~UrlChar(t[b]) THEN <<0, 0>>
        ELSE <<p, FindAny(t, Whitespace \cup {")"}, b) - 1>>

\* URL_RE.finditer(text): the non-overlapping matches, left to right.
RECURSIVE FindIter(_, _)
FindIter(t, p) ==
    IF p > Len(t) THEN <<>>
    ELSE LET m == MatchAt(t, p)
         IN  IF m[1] = 0 THEN FindIter(t, p + 1)
             ELSE <<Slice(t, m[1], m[2])>> \o FindIter(t, m[2] + 1)

\* urlparse(u): the scheme is the text before the first ":" when all of it
\* is scheme characters; the netloc follows "//" up to the first of / ? #.
\* Result [ok, netloc]; ok = FALSE stands for the ValueError urlsplit
\* raises on an unbalanced IPv6 bracket.
UrlParseNetloc(u) ==
    LET colon == FindAny(u, {":"}, 1)
        rest == Slice(u, colon + 1, Len(u))
        hasNetloc == Len(rest) >= 2 /\ rest[1] = "/" /\ rest[2] = "/"
        delim == FindAny(rest, {"/", "?", "#"}, 3)
        netloc == IF hasNetloc THEN Slice(rest, 3, delim - 1) ELSE <<>>
        badBracket == Contains(netloc, "[") # Contains(netloc, "]")
    IN  [ok |-> ~badBracket, netloc |-> netloc]

Str_tiktok == <<"t", "i", "k", "t", "o", "k", ".", "c", "o", "m">>
_ALLOWED_TT_HOSTS ==
    { Str_tiktok,
      <<"w", "w", "w", ".">> \o Str_tiktok,
      <<"m", ".">> \o Str_tiktok,
      <<"v", "m", ".">> \o Str_tiktok,
      <<"v", "t", ".">> \o Str_tiktok }

_is_tiktok_link(u) ==
    LET r == UrlParseNetloc(u)
        host == Lower(r.netloc)
        h == IF Contains(host, ":")
             THEN Slice(host, 1, FindAny(host, {":"}, 1) - 1)
             ELSE host
    IN  r.ok /\ h \in _ALLOWED_TT_HOSTS

RECURSIVE FirstTikTok(_)
FirstTikTok(urls) ==
    IF urls = <<>> THEN NoneStr
    ELSE IF _is_tiktok_link(Head(urls)) THEN Some(Head(urls))
    ELSE FirstTikTok(Tail(urls))

\* text is a str | None value.
_extract_tiktok_url_from_text(text) ==
    IF ~TruthyStr(text) THEN NoneStr
    ELSE FirstTikTok(FindIter(text.v, 1))

\* ------------------------------------------------------ identity formatter
DigitChars == <<"0", "1", "2", "3", "4", "5", "6", "7", "8", "9">>
\* str(n) for a non-negative integer.
RECURSIVE IntToStr(_)
IntToStr(n) ==
    IF n < 10 THEN <<DigitChars[n + 1]>>
    ELSE IntToStr(n \div 10) \o <<DigitChars[(n % 10) + 1]>>

\* " ".join(parts)
RECURSIVE Join(_)
Join(parts) ==
    IF parts = <<>> THEN <<>>
    ELSE IF Len(parts) = 1 THEN Head(parts)
    ELSE Head(parts) \o <<" ">> \o Join(Tail(parts))

\* A sender record, or the absence of one (present = FALSE).
NoUser ==
    [present |-> FALSE, username |-> NoneStr, first_name |-> NoneStr,
     last_name |-> NoneStr, id |-> 0]
User(username, first, last, id) ==
    [present |-> TRUE, username |-> username, first_name |-> first,
     last_name |-> last, id |-> id]

\* The formatter without the fallback to the numeric id.
_display_name_no_id(msg) ==
    LET u == msg.from_user
        parts == SelectSeq(<<u.first_name, u.last_name>>, TruthyStr)
        name == Join([k \in 1..Len(parts) |-> parts[k].v])
    IN  IF ~u.present THEN <<"u", "n", "k", "n", "o", "w", "n">>
        ELSE IF TruthyStr(u.username) THEN <<"@">> \o u.username.v
        ELSE name

_display_name_from_msg(msg) ==
    LET u == msg.from_user
        parts == SelectSeq(<<u.first_name, u.last_name>>, TruthyStr)
        name == Join([k \in 1..Len(parts) |-> parts[k].v])
    IN  IF ~u.present THEN <<"u", "n", "k", "n", "o", "w", "n">>
        ELSE IF TruthyStr(u.username) THEN <<"@">> \o u.username.v
        ELSE IF Len(name) > 0 THEN name
        ELSE IntToStr(u.id)

\* f"Send By : {sender}"
CaptionPrefix == <<"S", "e", "n", "d", " ", "B", "y", " ", ":", " ">>
Caption(sender) == CaptionPrefix \o sender

\* ------------------------------------------------------------ JSON values
\* A parsed JSON value, two levels deep, which is as far as the resolver
\* looks.  t is the JSON type; s the text of a string; n the number, the
\* truth value (0/1) of a bool, or the element count of an array or object.
\* A field that an object does not have is the leaf Absent; dict.get then
\* yields None, which is the leaf JNull's Python value as well.
Keys == {"hdplay", "play", "wmplay"}
JNull == [t |-> "null", s |-> <<>>, n |-> 0]
Absent == [t |-> "absent", s |-> <<>>, n |-> 0]
JStr(s) == [t |-> "str", s |-> s, n |-> 0]
JNum(n) == [t |-> "num", s |-> <<>>, n |-> n]
JBool(b) == [t |-> "bool", s |-> <<>>, n |-> IF b THEN 1 ELSE 0]
JArr(n) == [t |-> "arr", s |-> <<>>, n |-> n]
NoFields == [k \in Keys |-> Absent]
\* An object whose fields among Keys are f, with `extra` further fields.
JObj(f, extra) ==
    [t |-> "obj", s |-> <<>>,
     n |-> Cardinality({k \in Keys : f[k].t # "absent"}) + extra, f |-> f]
\* A non-object value where an object may stand.
Flat(leaf) == [t |-> leaf.t, s |-> leaf.s, n |-> leaf.n, f |-> NoFields]
\* The response body: top-level value with its "data" member (Flat(Absent)
\* when it has none or is not an object).
Body(leaf, data) == [t |-> leaf.t, s |-> leaf.s, n |-> leaf.n, data |-> data]
BodyObj(data, extra) ==
    [t |-> "obj", s |-> <<>>,
     n |-> (IF data.t = "absent" THEN 0 ELSE 1) + extra, data |-> data]

\* Python truthiness of a parsed JSON value (None for null / absent).
Truthy(v) ==
    CASE v.t \in {"null", "absent"} -> FALSE
      [] v.t = "str" -> Len(v.s) > 0
      [] v.t \in {"num", "bool", "arr", "obj"} -> v.n # 0
\* Only a dict has .get; on any other value the attribute lookup raises.
HasGet(v) == v.t = "obj"
\* The Python value of a dict.get result or of a JSON leaf: null and a
\* missing key are both None.
PyVal(v) == IF v.t = "absent" THEN JNull ELSE v

\* ----------------------------------------------------------- the resolver
\* The key tuple of line 95 with its first two entries swapped.
ResolveExtractPlayFirst(data) ==
    LET top == Truthy(data)
        got == IF top THEN data.data ELSE Flat(Absent)
        use == Truthy(got)
        d == IF use THEN got ELSE JObj(NoFields, 0)
        hit(k) == Truthy(d.f[k])
    IN  IF top /\ ~HasGet(data) THEN [raised |-> TRUE, v |-> JNull]
        ELSE IF use /\ ~HasGet(got) THEN [raised |-> TRUE, v |-> JNull]
        ELSE IF hit("play") THEN [raised |-> FALSE, v |-> d.f["play"]]
        ELSE IF hit("hdplay") THEN [raised |-> FALSE, v |-> d.f["hdplay"]]
        ELSE IF hit("wmplay") THEN [raised |-> FALSE, v |-> d.f["wmplay"]]
        ELSE [raised |-> FALSE, v |-> JNull]

\* Lines 94-99 of resolve_tiktok_direct_url, which run after (and outside)
\* the try block: the value returned, or raised = TRUE for the
\* AttributeError of calling .get on a value that is not a dict.
ResolveExtract(data) ==
    LET top == Truthy(data)                       \* (data or {})
        got == IF top THEN data.data ELSE Flat(Absent)
        use == Truthy(got)                        \* (... .get("data") or {})
        d == IF use THEN got ELSE JObj(NoFields, 0)
        hit(k) == Truthy(d.f[k])
    IN  IF top /\ ~HasGet(data) THEN [raised |-> TRUE, v |-> JNull]
        ELSE IF use /\ ~HasGet(got) THEN [raised |-> TRUE, v |-> JNull]
        ELSE IF hit("hdplay") THEN [raised |-> FALSE, v |-> d.f["hdplay"]]
        ELSE IF hit("play") THEN [raised |-> FALSE, v |-> d.f["play"]]
        ELSE IF hit("wmplay") THEN [raised |-> FALSE, v |-> d.f["wmplay"]]
        ELSE [raised |-> FALSE, v |-> JNull]

\* ------------------------------------------------------------------ inputs
Http == <<"h", "t", "t", "p", ":", "/", "/">>
Https == <<"h", "t", "t", "p", "s", ":", "/", "/">>
T_hello == <<"h", "i", " ", "a", "l", "l">>
T_other == Https \o <<"x", ".", "i", "o", "/", "a">>
T_short == <<"s", "e", "e", " ">> \o Https \o <<"v", "m", ".">> \o Str_tiktok \o <<"/", "Z">>
T_upper ==
    <<"H", "T", "T", "P", "S", ":", "/", "/", "W", "W", "W", ".", "T", "i", "k",
      "T", "o", "k", ".", "c", "o", "m", ":", "4", "4", "3", "/", "v">>
T_two == <<"(">> \o Http \o <<"x", ".", "i", "o", ")", " ">> \o Http \o Str_tiktok \o <<"?", "b", "\n", "k">>
T_bracket == Http \o <<"[", "x", " ">> \o Https \o <<"m", ".">> \o Str_tiktok \o <<"#", "c">>

\* A URL whose userinfo looks like an allow-listed host; its host is x.io.
T_trick == Https \o Str_tiktok \o <<":", "1", "@", "x", ".", "i", "o", "/">>
\* A URL of an allow-listed host that carries userinfo.
T_at == Https \o <<"u", "@">> \o Str_tiktok \o <<"/", "v">>

U_handle == User(Some(<<"b", "o", "b">>), Some(<<"B">>), NoneStr, 11)
U_names == User(NoneStr, Some(<<"A", "l">>), Some(<<"Z">>), 12)
U_first == User(Some(<<>>), Some(<<>>), Some(<<"Z">>), 13)
U_id == User(NoneStr, NoneStr, NoneStr, 14)

Message(text, kind, chat, user) ==
    [present |-> TRUE, text |-> text, chat_type |-> kind, chat_id |-> chat,
     from_user |-> user]
\* update.effective_message is None
NoMessage ==
    [present |-> FALSE, text |-> NoneStr, chat_type |-> "private", chat_id |-> 0,
     from_user |-> NoUser]

Messages ==
    { NoMessage,
      Message(NoneStr, "group", 7, U_handle),
      Message(Some(<<>>), "private", 8, U_id),
      Message(Some(T_hello), "group", 7, U_names),
      Message(Some(T_other), "supergroup", 9, U_handle),
      Message(Some(T_short), "private", 8, U_handle),
      Message(Some(T_short), "group", 7, U_names),
      Message(Some(T_upper), "supergroup", 9, U_id),
      Message(Some(T_two), "channel", 6, NoUser),
      Message(Some(T_bracket), "group", 7, U_first),
      Message(Some(T_trick), "group", 7, U_handle),
      Message(Some(T_at), "supergroup", 9, U_names) }

Url_hd == <<"c", "d", "n", "/", "h", "d">>
Url_sd == <<"c", "d", "n", "/", "s", "d">>
Url_wm == <<"c", "d", "n", "/", "w", "m">>
Fields(hd, sd, wm) == [k \in Keys |-> CASE k = "hdplay" -> hd [] k = "play" -> sd [] k = "wmplay" -> wm]

\* Parsed response bodies of the lookup service.
Bodies ==
    { BodyObj(JObj(Fields(JStr(Url_hd), JStr(Url_sd), Absent), 2), 2),
      BodyObj(JObj(Fields(Absent, Absent, JStr(Url_wm)), 0), 0),
      BodyObj(JObj(Fields(JStr(<<>>), JStr(Url_sd), JNull), 0), 0),
      BodyObj(JObj(Fields(JNum(7), Absent, Absent), 0), 1),
      BodyObj(JObj(NoFields, 0), 0),
      BodyObj(JObj(NoFields, 1), 0),
      BodyObj(Flat(Absent), 0),
      BodyObj(Flat(Absent), 2),
      BodyObj(Flat(JNull), 1),
      BodyObj(Flat(JStr(<<>>)), 0),
      BodyObj(Flat(JStr(<<"n", "o">>)), 1),
      BodyObj(Flat(JNum(5)), 0),
      BodyObj(Flat(JArr(1)), 0),
      Body(JNull, Flat(Absent)),
      Body(JArr(0), Flat(Absent)),
      Body(JArr(2), Flat(Absent)),
      Body(JStr(<<"o", "k">>), Flat(Absent)),
      Body(JBool(TRUE), Flat(Absent)),
      Body(JNum(0), Flat(Absent)) }

\* HTTP statuses a response may carry.
Statuses == {200, 404, 500}

\* ------------------------------------------------------------------- state
VARIABLES
    frame,  \* per slot: the locals of the handle_message coroutine
    obs,    \* per slot: what the invocation has done so far (calls, exits)
    fs,     \* the temporary directory: per path, the file there
    arg,    \* the input of the helper function a helper specification applies
    ret     \* that function's result, once applied

\* The variables of the helper specifications; the pipeline leaves them alone.
pure == <<arg, ret>>
vars == <<frame, obs, fs, arg, ret>>

NoFile == [exists |-> FALSE, owner |-> 0, wopen |-> FALSE, ropen |-> FALSE, written |-> 0]

InitFrame ==
    [pc |-> "idle", msg |-> NoMessage, tiktok_url |-> NoneStr, chat_id |-> 0,
     caption |-> <<>>, session |-> "none", direct_url |-> JNull, path |-> 0,
     tmp_path |-> 0, left |-> 0, outcome |-> "none"]

InitObs ==
    [calls |-> <<>>, gets |-> <<>>, resolved |-> "pending",
     dl_called |-> FALSE, dl_arg |-> JNull, dl_result |-> "none", created |-> 0,
     total |-> 0, removed |-> 0]

Init ==
    /\ frame = [i \in Invs |-> InitFrame]
    /\ obs = [i \in Invs |-> InitObs]
    /\ fs = [p \in Paths |-> NoFile]
    /\ arg = <<>>
    /\ ret = <<>>

Idle(i) == frame[i].pc \in {"idle", "done"}

\* ------------------------------------------------------------ platform API
\* One call of the bot API, as the platform sees it.
Call(op, chat, kind, url, file, caption, ok) ==
    [op |-> op, chat_id |-> chat, video |-> kind, url |-> url, file |-> file,
     caption |-> caption, ok |-> ok,
     \* msg.delete() acts on the message; every context.bot.send_* call is
     \* given chat_id and no reply_to_message_id.
     scope |-> IF op = "delete_message" THEN "message" ELSE "chat"]
ApiCall(i, op, ok) == Call(op, frame[i].chat_id, "none", JNull, 0, <<>>, ok)
\* send_video(chat_id=chat_id, video=direct_url, caption=caption)
SendVideoUrl(i, ok) ==
    Call("send_video", frame[i].chat_id, "url", frame[i].direct_url, 0,
         frame[i].caption, ok)
\* msg.reply_video(video=f, caption=caption): a reply to the original
\* message.
SendVideoFileReply(i, p, ok) ==
    [Call("send_video", frame[i].chat_id, "file", JNull, p, frame[i].caption, ok)
        EXCEPT !.scope = "reply"]

\* send_video(chat_id=chat_id, video=f, caption=caption), f opened on p
SendVideoFile(i, p, ok) ==
    Call("send_video", frame[i].chat_id, "file", JNull, p, frame[i].caption, ok)

\* -------------------------------------------------------------- filesystem
\* os.remove(p): unlinks the file; raises when there is none (the callers
\* swallow that).
OsRemove(f, p) == [f EXCEPT ![p] = NoFile]
\* Number of files that a remove of p takes away: 1 or 0.
Removes(f, p) == IF f[p].exists THEN 1 ELSE 0

\* tempfile.NamedTemporaryFile(delete=False, suffix=".mp4"): a new file,
\* open for writing, under a name no existing file has (O_EXCL).
NamedTemporaryFile(f, i, p) ==
    [f EXCEPT ![p] = [exists |-> TRUE, owner |-> i, wopen |-> TRUE,
                      ropen |-> FALSE, written |-> 0]]

\* --------------------------------------------------------------- exits
\* Leaving handle_message: the `async with` block closes the session when
\* one is open; the coroutine ends with the given outcome.
Leave(fr, outcome) ==
    [fr EXCEPT !.pc = "done", !.outcome = outcome,
               !.session = IF fr.session = "open" THEN "closed" ELSE fr.session]

\* A finally block that forgets the file.
FinallyKeep(f, path) == f

\* Lines 173-178: the finally block of the fallback.
Finally(f, path) == IF path # 0 THEN OsRemove(f, path) ELSE f
FinallyRemoves(f, path) == IF path # 0 THEN Removes(f, path) ELSE 0

\* An except block that closes the file but leaves it on disk.
DownloadExceptKeep(f, tmp_path) == [f EXCEPT ![tmp_path].wopen = FALSE]

\* Lines 111-117: the except block of download_to_tempfile.
DownloadExcept(f, tmp_path) == OsRemove([f EXCEPT ![tmp_path].wopen = FALSE], tmp_path)

\* ----------------------------------------------------------- handle_message
\* Lines 128-142 without the test of line 134: every text message is
\* taken through the pipeline.
StartUnfiltered(m) ==
    LET url == _extract_tiktok_url_from_text(m.text)
    IN  IF ~m.present \/ ~TruthyStr(m.text)
        THEN [InitFrame EXCEPT !.msg = m, !.pc = "done", !.outcome = "discarded"]
        ELSE [InitFrame EXCEPT
                !.msg = m, !.tiktok_url = url, !.chat_id = m.chat_id,
                !.caption = Caption(_display_name_from_msg(m)),
                !.pc = IF m.chat_type \in {"group", "supergroup"}
                       THEN "delete" ELSE "chat_action"]

\* Lines 128-142: from the entry to the first await.
Start(m) ==
    LET url == _extract_tiktok_url_from_text(m.text)
        matched == [InitFrame EXCEPT
                      !.msg = m, !.tiktok_url = url, !.chat_id = m.chat_id,
                      !.caption = Caption(_display_name_from_msg(m)),
                      !.pc = IF m.chat_type \in {"group", "supergroup"}
                             THEN "delete" ELSE "chat_action"]
    IN  IF ~m.present \/ ~TruthyStr(m.text)
        THEN Leave([InitFrame EXCEPT !.msg = m], "discarded")
        ELSE IF ~TruthyStr(url)
        THEN Leave([InitFrame EXCEPT !.msg = m, !.tiktok_url = url], "discarded")
        ELSE matched

\* The application hands the next update to handle_message.  Updates are
\* processed one at a time (the Application is built without concurrent
\* updates), so no other invocation is in flight; the frames of finished
\* invocations are gone.
Receive(i, m) ==
    /\ \A j \in Invs : Idle(j)
    /\ frame' = [j \in Invs |-> IF j = i THEN Start(m) ELSE InitFrame]
    /\ obs' = [j \in Invs |-> InitObs]
    /\ UNCHANGED <<fs, pure>>

\* msg.delete() outside a try block: its failure leaves the handler.
AfterDeleteAbort(fr, ok) ==
    IF ok THEN [fr EXCEPT !.pc = "chat_action"] ELSE [fr EXCEPT !.pc = "done", !.outcome = "exception"]

\* Lines 143-146: msg.delete() returned (ok) or raised.
AfterDelete(fr, ok) == [fr EXCEPT !.pc = "chat_action"]

Delete(i, ok) ==
    /\ frame[i].pc = "delete"
    /\ obs' = [obs EXCEPT ![i].calls = Append(@, ApiCall(i, "delete_message", ok))]
    /\ frame' = [frame EXCEPT ![i] = AfterDelete(@, ok)]
    /\ UNCHANGED <<fs, pure>>

\* Lines 149-154: send_chat_action returned or raised; the session is
\* opened and the resolver's request is under way.
AfterChatAction(fr, ok) == [fr EXCEPT !.pc = "resolve_get", !.session = "open"]

ChatAction(i, ok) ==
    /\ frame[i].pc = "chat_action"
    /\ obs' = [obs EXCEPT ![i].calls = Append(@, ApiCall(i, "send_chat_action", ok))]
    /\ frame' = [frame EXCEPT ![i] = AfterChatAction(@, ok)]
    /\ UNCHANGED <<fs, pure>>

\* Lines 155-158 without the notice: an unresolved link ends the handler
\* silently.
AfterResolveSilent(fr, v) ==
    IF ~Truthy(v) THEN [fr EXCEPT !.direct_url = v, !.pc = "done", !.outcome = "noticed",
                                  !.session = "closed"]
    ELSE [fr EXCEPT !.direct_url = v, !.pc = "send_url"]

\* Lines 155-158 and 160: what handle_message does with the resolver's
\* return value v.
AfterResolve(fr, v) ==
    IF ~Truthy(v) THEN [fr EXCEPT !.direct_url = v, !.pc = "notice"]
    ELSE [fr EXCEPT !.direct_url = v, !.pc = "send_url"]

\* Lines 79-88, 90-92: session.get returned a response with status r, or
\* raised (r = 0: transport failure, timeout).
ResolveGet(i, r) ==
    /\ frame[i].pc = "resolve_get"
    /\ obs' = [obs EXCEPT
                 ![i].gets = Append(@, [to |-> "resolver", url |-> JStr(frame[i].tiktok_url.v)]),
                 ![i].resolved = IF r = 200 THEN @ ELSE "none"]
    /\ frame' = [frame EXCEPT ![i] =
                   IF r = 200 THEN [@ EXCEPT !.pc = "resolve_json"]
                   ELSE AfterResolve(@, JNull)]
    /\ UNCHANGED <<fs, pure>>

\* Lines 89-92: r.json() raised; the resolver returns None.
ResolveJsonFail(i) ==
    /\ frame[i].pc = "resolve_json"
    /\ obs' = [obs EXCEPT ![i].resolved = "none"]
    /\ frame' = [frame EXCEPT ![i] = AfterResolve(@, JNull)]
    /\ UNCHANGED <<fs, pure>>

\* Lines 89, 94-99: r.json() returned the parsed body b.
ResolveJson(i, b) ==
    /\ frame[i].pc = "resolve_json"
    /\ LET x == ResolveExtract(b)
       IN  /\ obs' = [obs EXCEPT ![i].resolved =
                        IF x.raised THEN "raised"
                        ELSE IF Truthy(x.v) THEN "url" ELSE "none"]
           /\ frame' = [frame EXCEPT ![i] =
                          IF x.raised THEN Leave(@, "exception")
                          ELSE AfterResolve(@, x.v)]
    /\ UNCHANGED <<fs, pure>>

\* A notice that is sent again until it goes through.
AfterNoticeRetry(fr, ok) == IF ok THEN Leave(fr, "noticed") ELSE fr

\* Lines 157-158: send_message returned or raised (nothing catches it).
AfterNotice(fr, ok) == Leave(fr, IF ok THEN "noticed" ELSE "exception")

Notice(i, ok) ==
    /\ frame[i].pc = "notice"
    /\ obs' = [obs EXCEPT ![i].calls = Append(@, ApiCall(i, "send_message", ok))]
    /\ frame' = [frame EXCEPT ![i] = AfterNotice(@, ok)]
    /\ UNCHANGED <<fs, pure>>

\* Lines 161-163 without the return: the fallback is entered although the
\* reference send succeeded.
SendUrlOkNoReturn(i) ==
    /\ frame[i].pc = "send_url"
    /\ \E p \in Paths :
         /\ ~fs[p].exists
         /\ obs' = [obs EXCEPT ![i].calls = Append(@, SendVideoUrl(i, TRUE)),
                               ![i].dl_called = TRUE,
                               ![i].dl_arg = frame[i].direct_url,
                               ![i].created = p]
         /\ frame' = [frame EXCEPT ![i].path = 0, ![i].tmp_path = p, ![i].pc = "dl_get"]
         /\ fs' = NamedTemporaryFile(fs, i, p)
    /\ UNCHANGED pure
         /\ UNCHANGED pure

\* Lines 161-163: send_video by URL returned.
SendUrlOk(i) ==
    /\ frame[i].pc = "send_url"
    /\ obs' = [obs EXCEPT ![i].calls = Append(@, SendVideoUrl(i, TRUE))]
    /\ frame' = [frame EXCEPT ![i] = Leave(@, "ref_sent")]
    /\ UNCHANGED <<fs, pure>>

\* download_to_tempfile called with the page link instead of the media URL.
DownloadArgPageLink(fr) == JStr(fr.tiktok_url.v)

\* The URL download_to_tempfile is called with (line 170).
DownloadArg(fr) == fr.direct_url

\* A temporary file under a name that is not checked to be free (a fixed or
\* guessed name instead of an exclusive create).
SendUrlFailAnyName(i, p) ==
    /\ frame[i].pc = "send_url"
    /\ obs' = [obs EXCEPT ![i].calls = Append(@, SendVideoUrl(i, FALSE)),
                          ![i].dl_called = TRUE,
                          ![i].dl_arg = frame[i].direct_url,
                          ![i].created = p]
    /\ frame' = [frame EXCEPT ![i].path = 0, ![i].tmp_path = p, ![i].pc = "dl_get"]
    /\ fs' = NamedTemporaryFile(fs, i, p)
    /\ UNCHANGED pure

\* Lines 164-170, 102-105: send_video by URL raised; path = None;
\* download_to_tempfile is entered, creates its file p and requests the URL.
SendUrlFail(i, p) ==
    /\ frame[i].pc = "send_url"
    /\ ~fs[p].exists
    /\ obs' = [obs EXCEPT ![i].calls = Append(@, SendVideoUrl(i, FALSE)),
                          ![i].dl_called = TRUE,
                          ![i].dl_arg = DownloadArg(frame[i]),
                          ![i].created = p]
    /\ frame' = [frame EXCEPT ![i].path = 0, ![i].tmp_path = p, ![i].pc = "dl_get"]
    /\ fs' = NamedTemporaryFile(fs, i, p)
    /\ UNCHANGED pure

\* Lines 164-170, 102, 173-174: as above, but NamedTemporaryFile raises
\* (no usable temporary directory, no space): nothing was created, the
\* error leaves download_to_tempfile and handle_message.
SendUrlFailNoTemp(i) ==
    /\ frame[i].pc = "send_url"
    /\ obs' = [obs EXCEPT ![i].calls = Append(@, SendVideoUrl(i, FALSE)),
                          ![i].dl_called = TRUE,
                          ![i].dl_arg = DownloadArg(frame[i]),
                          ![i].dl_result = "raised"]
    /\ frame' = [frame EXCEPT ![i] = Leave([@ EXCEPT !.path = 0], "exception")]
    /\ fs' = Finally(fs, 0)
    /\ UNCHANGED pure

\* Lines 111-117 then 173-178: a failure inside download_to_tempfile's try
\* block: the file is closed and removed, the error is re-raised, path is
\* still None in the finally block and the error leaves handle_message.
DownloadRaises(i) ==
    LET f1 == DownloadExcept(fs, frame[i].tmp_path)
    IN  /\ obs' = [obs EXCEPT
                     ![i].dl_result = "raised",
                     ![i].removed = @ + Removes(fs, frame[i].tmp_path)
                                      + FinallyRemoves(f1, frame[i].path),
                     ![i].gets = IF frame[i].pc = "dl_get"
                                 THEN Append(@, [to |-> "media", url |-> frame[i].direct_url])
                                 ELSE @]
        /\ frame' = [frame EXCEPT ![i] = Leave([@ EXCEPT !.tmp_path = 0, !.left = 0], "exception")]
        /\ fs' = Finally(f1, frame[i].path)
        /\ UNCHANGED pure

\* Lines 105-106: session.get raised (r = 0) or raise_for_status did.
DlGetFail(i, r) ==
    /\ frame[i].pc = "dl_get"
    /\ r = 0 \/ r >= 400
    /\ DownloadRaises(i)

\* Lines 105-107: the response arrived with a success status; its body
\* will come in n chunks.  (session.get raises on a URL that is no string.)
DlGetOk(i, r, n) ==
    /\ frame[i].pc = "dl_get"
    /\ r # 0 /\ r < 400
    /\ frame[i].direct_url.t = "str"
    /\ obs' = [obs EXCEPT
                 ![i].gets = Append(@, [to |-> "media", url |-> frame[i].direct_url]),
                 ![i].total = n]
    /\ frame' = [frame EXCEPT ![i].pc = "dl_chunk", ![i].left = n]
    /\ UNCHANGED <<fs, pure>>

\* Lines 107-108: the next chunk arrived and was written.
DlChunk(i) ==
    /\ frame[i].pc = "dl_chunk"
    /\ frame[i].left > 0
    /\ fs' = [fs EXCEPT ![frame[i].tmp_path].written = @ + 1]
    /\ frame' = [frame EXCEPT ![i].left = @ - 1]
    /\ UNCHANGED <<obs, pure>>

\* Lines 107-109: the stream broke, tmp.write raised, or tmp.close did.
DlFail(i) ==
    /\ frame[i].pc = "dl_chunk"
    /\ DownloadRaises(i)

\* Lines 107-110, 170-172: the stream ended; the file is closed and its
\* path returned; handle_message opens it and send_video by bytes is under
\* way.
DlEof(i) ==
    /\ frame[i].pc = "dl_chunk"
    /\ frame[i].left = 0
    /\ fs' = [fs EXCEPT ![frame[i].tmp_path].wopen = FALSE,
                        ![frame[i].tmp_path].ropen = TRUE]
    /\ frame' = [frame EXCEPT ![i].path = frame[i].tmp_path, ![i].tmp_path = 0,
                              ![i].pc = "upload"]
    /\ obs' = [obs EXCEPT ![i].dl_result = "returned"]
    /\ UNCHANGED pure

\* An upload whose completion is never noticed: the handler stays
\* suspended.
AfterUploadHang(fr, ok) == [fr EXCEPT !.pc = "suspended"]

\* Lines 172-178: send_video by bytes returned or raised; the with block
\* closes f, the finally block removes the file; a failure leaves
\* handle_message (there is no except clause).
AfterUpload(fr, ok) == Leave(fr, IF ok THEN "uploaded" ELSE "exception")

Upload(i, ok) ==
    /\ frame[i].pc = "upload"
    /\ obs' = [obs EXCEPT
                 ![i].calls = Append(@, SendVideoFile(i, frame[i].path, ok)),
                 ![i].removed = @ + FinallyRemoves(fs, frame[i].path)]
    /\ frame' = [frame EXCEPT ![i] = AfterUpload(@, ok)]
    /\ fs' = Finally([fs EXCEPT ![frame[i].path].ropen = FALSE], frame[i].path)
    /\ UNCHANGED pure

\* A handler takes its next step: the call it awaits returns or raises.
Progress ==
    \E i \in Invs :
        \/ \E ok \in BOOLEAN : Delete(i, ok)
        \/ \E ok \in BOOLEAN : ChatAction(i, ok)
        \/ \E r \in {0} \cup Statuses : ResolveGet(i, r)
        \/ ResolveJsonFail(i)
        \/ \E b \in Bodies : ResolveJson(i, b)
        \/ \E ok \in BOOLEAN : Notice(i, ok)
        \/ SendUrlOk(i)
        \/ \E p \in Paths : SendUrlFail(i, p)
        \/ SendUrlFailNoTemp(i)
        \/ \E r \in {0} \cup Statuses : DlGetFail(i, r)
        \/ \E r \in Statuses, n \in 0..MaxChunks : DlGetOk(i, r, n)
        \/ DlChunk(i)
        \/ DlFail(i)
        \/ DlEof(i)
        \/ \E ok \in BOOLEAN : Upload(i, ok)

Next ==
    \/ \E i \in Invs, m \in Messages : Receive(i, m)
    \/ Progress

Spec == Init /\ [][Next]_vars

\* Every external call eventually returns or fails: a handler that can take
\* a step eventually takes one.
SpecLive == Init /\ [][Next]_vars /\ WF_vars(Progress)

\* ------------------------------------------------- helper specifications
\* Each applies one helper function once to an input drawn from a set.
Pending == [done |-> FALSE, v |-> <<>>]
Result(v) == [done |-> TRUE, v |-> v]
InitPipeline ==
    /\ frame = [i \in Invs |-> InitFrame]
    /\ obs = [i \in Invs |-> InitObs]
    /\ fs = [p \in Paths |-> NoFile]

\* Texts for the link matcher: None, and up to MaxTokens words and URLs
\* joined by blanks.
Tokens ==
    { <<"h", "i">>,
      Https \o <<"v", "m", ".">> \o Str_tiktok \o <<"/", "Z">>,
      T_upper, T_other, Http \o <<"[", "x">>, T_trick, T_at }
MatcherTexts ==
    {NoneStr} \cup
    { Some(Join(q)) : q \in UNION { [1..k -> Tokens] : k \in 0..MaxTokens } }

InitMatcher == InitPipeline /\ arg \in MatcherTexts /\ ret = Pending
ApplyMatcher ==
    /\ ~ret.done
    /\ ret' = Result(_extract_tiktok_url_from_text(arg))
    /\ UNCHANGED <<frame, obs, fs, arg>>
SpecMatcher == InitMatcher /\ [][ApplyMatcher]_vars

\* "data" objects for the resolver: every combination of field values.
FieldValues ==
    { Absent, JNull, JStr(<<>>), JStr(Url_hd), JStr(Url_sd), JStr(Url_wm),
      JNum(0), JNum(7) }
DataObjects ==
    { JObj(Fields(a, b, c), x) : a \in FieldValues, b \in FieldValues,
                                 c \in FieldValues, x \in {0, 1} }

InitResolver == InitPipeline /\ arg \in DataObjects /\ ret = Pending
\* The lookup answered 200 with the body {"data": arg}.
ApplyResolver ==
    /\ ~ret.done
    /\ ret' = Result(ResolveExtract(BodyObj(arg, 0)))
    /\ UNCHANGED <<frame, obs, fs, arg>>
SpecResolver == InitResolver /\ [][ApplyResolver]_vars

\* Sender records for the identity formatter.
Handles == { NoneStr, Some(<<>>), Some(<<"b", "o", "b">>) }
FirstNames == { NoneStr, Some(<<>>), Some(<<"A", "l">>) }
LastNames == { NoneStr, Some(<<>>), Some(<<"Z">>) }
UserIds == { 0, 14, 1203 }
Senders ==
    {NoUser} \cup
    { User(h, f, l, n) : h \in Handles, f \in FirstNames, l \in LastNames,
                         n \in UserIds }

InitIdentity == InitPipeline /\ arg \in Senders /\ ret = Pending
ApplyIdentity ==
    /\ ~ret.done
    /\ ret' = Result(_display_name_from_msg([from_user |-> arg]))
    /\ UNCHANGED <<frame, obs, fs, arg>>
SpecIdentity == InitIdentity /\ [][ApplyIdentity]_vars

\* ------------------------------------------------- concurrent handling
\* handle_message invocations interleaved at their awaits, as when the
\* application runs handlers concurrently.  A slot takes a new update as
\* soon as its own invocation has ended; the inputs are a link message and a
\* plain one, a lookup that answers with a media URL or an error status.
ConcMessages ==
    { Message(Some(T_short), "private", 8, U_handle),
      Message(Some(T_hello), "private", 8, U_id) }
ConcBodies == { BodyObj(JObj(Fields(JStr(Url_hd), Absent, Absent), 0), 0) }

ReceiveConc(i, m) ==
    /\ Idle(i)
    /\ frame' = [frame EXCEPT ![i] = Start(m)]
    /\ obs' = [obs EXCEPT ![i] = InitObs]
    /\ UNCHANGED <<fs, pure>>

NextConc ==
    \E i \in Invs :
        \/ \E m \in ConcMessages : ReceiveConc(i, m)
        \/ ChatAction(i, TRUE)
        \/ \E r \in {200, 500} : ResolveGet(i, r)
        \/ \E b \in ConcBodies : ResolveJson(i, b)
        \/ Notice(i, TRUE)
        \/ SendUrlOk(i)
        \/ \E p \in Paths : SendUrlFail(i, p)
        \/ DlGetFail(i, 0)
        \/ \E n \in 0..MaxChunks : DlGetOk(i, 200, n)
        \/ DlChunk(i)
        \/ DlFail(i)
        \/ DlEof(i)
        \/ \E ok \in BOOLEAN : Upload(i, ok)

SpecConc == Init /\ [][NextConc]_vars

\* ------------------------------------------------------------- properties
Done(i) == frame[i].pc = "done"
CallIdx(i) == DOMAIN obs[i].calls
IsOp(c, op) == c.op = op
IsUrlSend(c) == c.op = "send_video" /\ c.video = "url"
IsFileSend(c) == c.op = "send_video" /\ c.video = "file"
Count(i, op) == Cardinality({k \in CallIdx(i) : IsOp(obs[i].calls[k], op)})
\* The files on disk that invocation i created.
Owned(i) == {p \in Paths : fs[p].exists /\ fs[p].owner = i}
MediaGets(i) == {k \in DOMAIN obs[i].gets : obs[i].gets[k].to = "media"}

\* C1: once an invocation that created a temporary file has ended, however
\* it ended, that file has been removed exactly once and no temporary file
\* of the invocation exists; at no time has it been removed more than once
\* or does the invocation own more than one file.
C1_TempFileRemovedOnce ==
    \A i \in Invs :
        /\ obs[i].removed <= 1
        /\ Cardinality(Owned(i)) <= 1
        /\ (Done(i) /\ obs[i].created # 0) => (obs[i].removed = 1 /\ Owned(i) = {})

\* C1 witness: the fallback ended with the upload raising, after a download
\* that wrote every chunk of a body of MaxChunks chunks.
C1_Witness ==
    \E i \in Invs :
        /\ Done(i) /\ obs[i].created # 0 /\ obs[i].dl_result = "returned"
        /\ obs[i].total = MaxChunks
        /\ frame[i].outcome = "exception"
        /\ \E k \in CallIdx(i) : IsFileSend(obs[i].calls[k]) /\ ~obs[i].calls[k].ok

\* C2: when download_to_tempfile has returned, a file closed by its writer
\* and holding every chunk of the body exists at the returned path; when it
\* has raised, no file it created remains; a file still open for writing or
\* short of the body exists only while the call is running.
C2_DownloadAllOrNothing ==
    \A i \in Invs :
        /\ (obs[i].dl_result = "returned" /\ frame[i].pc = "upload") =>
               LET p == frame[i].path
               IN  /\ p # 0 /\ p = obs[i].created
                   /\ fs[p].exists /\ fs[p].owner = i
                   /\ ~fs[p].wopen /\ fs[p].written = obs[i].total
        /\ obs[i].dl_result = "raised" => Owned(i) = {}
        /\ (\E p \in Owned(i) : fs[p].wopen \/ fs[p].written < obs[i].total)
               => frame[i].pc \in {"dl_get", "dl_chunk"}

\* C2 witness: the download raised while the body, of MaxChunks chunks, was
\* being streamed into the file it had created.
C2_Witness ==
    \E i \in Invs :
        /\ obs[i].dl_result = "raised" /\ obs[i].created # 0
        /\ obs[i].total = MaxChunks /\ obs[i].removed = 1
        /\ Cardinality(MediaGets(i)) = 1

\* C3 (as claimed): an invocation ends with an exception only when the
\* fallback download failed.
C3_OnlyDownloadPropagates ==
    \A i \in Invs :
        (Done(i) /\ frame[i].outcome = "exception") => obs[i].dl_result = "raised"

\* C4: when the resolver has returned no media URL the invocation ends with
\* exactly one send_message, no send_video and no download; in every other
\* branch no send_message is made at all.
C4_SingleNoticeOnlyWhenUnresolved ==
    \A i \in Invs :
        /\ (Done(i) /\ obs[i].resolved = "none") =>
               /\ Count(i, "send_message") = 1
               /\ Count(i, "send_video") = 0
               /\ ~obs[i].dl_called /\ obs[i].created = 0 /\ MediaGets(i) = {}
        /\ obs[i].resolved = "none" =>
               (frame[i].pc \in {"notice", "done"} /\ Count(i, "send_video") = 0)
        /\ obs[i].resolved # "none" => Count(i, "send_message") = 0

\* C4 witness: the lookup answered with an object whose data holds no usable
\* field, and the notice has been sent.
C4_Witness ==
    \E i \in Invs :
        /\ Done(i) /\ obs[i].resolved = "none" /\ frame[i].outcome = "noticed"
        /\ Len(obs[i].gets) = 1
        /\ Count(i, "send_message") = 1

\* The host of a URL as urlparse(u).hostname gives it: the netloc without
\* userinfo (up to the last "@") and without port, in lower case.  The
\* allow-list is a list of hosts, so this is what it is to be compared to.
RECURSIVE LastAt(_, _)
LastAt(s, k) == IF k = 0 THEN 0 ELSE IF s[k] = "@" THEN k ELSE LastAt(s, k - 1)
RefHost(u) ==
    LET r == UrlParseNetloc(u)
        hostport == Slice(r.netloc, LastAt(r.netloc, Len(r.netloc)) + 1, Len(r.netloc))
    IN  Lower(Slice(hostport, 1, FindAny(hostport, {":"}, 1) - 1))
RefAllowed(u) == UrlParseNetloc(u).ok /\ RefHost(u) \in _ALLOWED_TT_HOSTS
\* The URLs of a text (the matches of URL_RE) whose host is allow-listed.
RefAllowedUrls(text) ==
    IF ~TruthyStr(text) THEN <<>> ELSE SelectSeq(FindIter(text.v, 1), RefAllowed)
RefHasAllowed(text) == RefAllowedUrls(text) # <<>>

\* C5 (as claimed): for a message that is absent, has no text, or whose text
\* holds no URL of an allow-listed host, the invocation makes no platform
\* call and no request, opens no session and creates no temporary file.
C5_NoLinkNoEffects ==
    \A i \in Invs :
        LET m == frame[i].msg
        IN  (frame[i].pc # "idle" /\ (~m.present \/ ~RefHasAllowed(m.text))) =>
               /\ obs[i].calls = <<>> /\ obs[i].gets = <<>>
               /\ frame[i].session = "none"
               /\ obs[i].created = 0 /\ Owned(i) = {}
               /\ Done(i) /\ frame[i].outcome = "discarded"

\* C6: once the send_video by URL has succeeded the invocation has ended:
\* no download was started, no temporary file created, no second
\* send_video and no send_message made.
C6_ReferenceSuccessTerminates ==
    \A i \in Invs :
        (\E k \in CallIdx(i) : IsUrlSend(obs[i].calls[k]) /\ obs[i].calls[k].ok) =>
            /\ Done(i) /\ frame[i].outcome = "ref_sent"
            /\ ~obs[i].dl_called /\ obs[i].created = 0 /\ Owned(i) = {}
            /\ MediaGets(i) = {}
            /\ Count(i, "send_video") = 1
            /\ Count(i, "send_message") = 0

\* C6 witness: a reference send succeeded.
C6_Witness ==
    \E i \in Invs :
        /\ Done(i) /\ obs[i].resolved = "url"
        /\ \E k \in CallIdx(i) : IsUrlSend(obs[i].calls[k]) /\ obs[i].calls[k].ok

\* C7: once the send_video by URL has failed, download_to_tempfile has been
\* called with the resolved URL that send carried; an invocation whose
\* download returned ends with exactly one send_video by bytes, with the
\* caption of the reference attempt; and every send_video by bytes comes
\* after a failed send_video by URL and a download that returned.
C7_FallbackAfterReferenceFailure ==
    \A i \in Invs :
        /\ \A k \in CallIdx(i) :
               (IsUrlSend(obs[i].calls[k]) /\ ~obs[i].calls[k].ok) =>
                   /\ obs[i].dl_called
                   /\ obs[i].dl_arg = obs[i].calls[k].url
                   /\ \A g \in MediaGets(i) : obs[i].gets[g].url = obs[i].calls[k].url
        /\ (Done(i) /\ obs[i].dl_result = "returned") =>
               Cardinality({k \in CallIdx(i) : IsFileSend(obs[i].calls[k])}) = 1
        /\ \A k \in CallIdx(i) :
               IsFileSend(obs[i].calls[k]) =>
                   /\ obs[i].dl_result = "returned"
                   /\ k > 1
                   /\ IsUrlSend(obs[i].calls[k - 1]) /\ ~obs[i].calls[k - 1].ok
                   /\ obs[i].calls[k].caption = obs[i].calls[k - 1].caption
                   /\ obs[i].calls[k].chat_id = obs[i].calls[k - 1].chat_id
                   /\ k = Len(obs[i].calls)

\* C7 witness: the reference send failed, the download returned and the
\* upload succeeded.
C7_Witness ==
    \E i \in Invs :
        /\ Done(i) /\ frame[i].outcome = "uploaded"
        /\ obs[i].total > 0
        /\ \E k \in CallIdx(i) : IsFileSend(obs[i].calls[k]) /\ obs[i].calls[k].ok

\* C8: when the fallback download has failed, the invocation has ended with
\* the exception, no file of it is on disk, no send_video by bytes was
\* attempted and no send_message was made.
C8_DownloadFailurePropagates ==
    \A i \in Invs :
        obs[i].dl_result = "raised" =>
            /\ Done(i) /\ frame[i].outcome = "exception"
            /\ Owned(i) = {}
            /\ \A k \in CallIdx(i) : ~IsFileSend(obs[i].calls[k])
            /\ Count(i, "send_message") = 0

\* C8 witness: the media request was answered with an error status after the
\* temporary file had been created.
C8_Witness ==
    \E i \in Invs :
        /\ obs[i].dl_result = "raised" /\ obs[i].created # 0
        /\ obs[i].total = 0 /\ obs[i].removed = 1

\* C9 (as claimed): the resolver never raises to handle_message.
C9_ResolverNeverRaises ==
    \A i \in Invs : obs[i].resolved # "raised"

\* C10: the step that follows msg.delete() and the step that follows
\* send_chat_action are the same whether the call returned or raised: the
\* locals are untouched, the handler goes on to the status signal and to
\* the resolver; and an invocation in which either call failed still made
\* the resolver's request.
C10_ModerationAndSignalFailuresIgnored ==
    /\ [][\A i \in Invs :
            /\ (frame[i].pc = "delete" /\ frame'[i] # frame[i]) =>
                   (frame'[i] = [frame[i] EXCEPT !.pc = "chat_action"] /\ fs' = fs)
            /\ (frame[i].pc = "chat_action" /\ frame'[i] # frame[i]) =>
                   (frame'[i] = [frame[i] EXCEPT !.pc = "resolve_get", !.session = "open"]
                    /\ fs' = fs)]_vars
    /\ [](\A i \in Invs :
            (Done(i) /\ \E k \in CallIdx(i) :
                 /\ obs[i].calls[k].op \in {"delete_message", "send_chat_action"}
                 /\ ~obs[i].calls[k].ok)
            => (Len(obs[i].gets) >= 1 /\ obs[i].gets[1].to = "resolver"))

\* C10 witness: delete and status signal both failed and the video was
\* still delivered by upload.
C10_Witness ==
    \E i \in Invs :
        /\ Done(i) /\ frame[i].outcome = "uploaded"
        /\ Len(obs[i].calls) = 4
        /\ ~obs[i].calls[1].ok /\ obs[i].calls[1].op = "delete_message"
        /\ ~obs[i].calls[2].ok /\ obs[i].calls[2].op = "send_chat_action"

\* C11: a delete_message is the first thing an invocation does: when it is
\* issued no call and no request has been made yet; every other platform
\* call is addressed to the chat by the message's chat id and is never a
\* reply to the original message.
C11_DeleteFirstThenChatScoped ==
    /\ [][\A i \in Invs :
            (Len(obs'[i].calls) = Len(obs[i].calls) + 1
             /\ obs'[i].calls[Len(obs'[i].calls)].op = "delete_message")
            => (obs[i].calls = <<>> /\ obs[i].gets = <<>>)]_vars
    /\ [](\A i \in Invs : \A k \in CallIdx(i) :
            LET c == obs[i].calls[k]
            IN  IF c.op = "delete_message" THEN k = 1
                ELSE c.scope = "chat" /\ c.chat_id = frame[i].msg.chat_id)

\* C11 witness: in a group, after the delete, all three kinds of send were
\* made, the last of them the upload.
C11_Witness ==
    \E i \in Invs :
        /\ Len(obs[i].calls) = 4
        /\ obs[i].calls[1].op = "delete_message" /\ obs[i].calls[1].ok
        /\ obs[i].calls[2].op = "send_chat_action"
        /\ IsUrlSend(obs[i].calls[3])
        /\ IsFileSend(obs[i].calls[4])

\* C12: within one invocation delete_message, send_chat_action and
\* send_message are each called at most once, send_video at most once by
\* URL and at most once by bytes, and the resolver and the media URL are
\* each requested at most once; a failed send_message or send_video by
\* bytes ends the invocation, a failed send_video by URL leads to the
\* download.
C12_NoRetries ==
    \A i \in Invs :
        /\ Count(i, "delete_message") <= 1
        /\ Count(i, "send_chat_action") <= 1
        /\ Count(i, "send_message") <= 1
        /\ Cardinality({k \in CallIdx(i) : IsUrlSend(obs[i].calls[k])}) <= 1
        /\ Cardinality({k \in CallIdx(i) : IsFileSend(obs[i].calls[k])}) <= 1
        /\ Cardinality(MediaGets(i)) <= 1
        /\ Len(obs[i].gets) - Cardinality(MediaGets(i)) <= 1
        /\ \A k \in CallIdx(i) :
               LET c == obs[i].calls[k]
               IN  ~c.ok =>
                     /\ (c.op = "send_message" \/ IsFileSend(c)) =>
                            (Done(i) /\ k = Len(obs[i].calls))
                     /\ IsUrlSend(c) => obs[i].dl_called

\* C12 witness: every call of the pipeline failed once: delete, status
\* signal, reference send and upload.
C12_Witness ==
    \E i \in Invs :
        /\ Done(i) /\ Len(obs[i].calls) = 4 /\ Len(obs[i].gets) = 2
        /\ \A k \in CallIdx(i) : ~obs[i].calls[k].ok

\* C18 (as claimed): once past the delete step, a delete_message has been
\* attempted exactly when the text holds a URL of an allow-listed host and
\* the chat is a group or supergroup.
C18_DeleteExactlyForGroupLinks ==
    \A i \in Invs :
        frame[i].pc \notin {"idle", "delete"} =>
            (Count(i, "delete_message") = 1
               <=> (frame[i].msg.present /\ RefHasAllowed(frame[i].msg.text)
                    /\ frame[i].msg.chat_type \in {"group", "supergroup"}))

\* The temporary path invocation i is working on: the one being written
\* (tmp_path) or the one being uploaded (path); 0 when it has none.
Held(i) ==
    IF frame[i].pc \in {"dl_get", "dl_chunk"} THEN frame[i].tmp_path
    ELSE IF frame[i].pc = "upload" THEN frame[i].path
    ELSE 0

\* C13: with invocations interleaved at their awaits, an invocation owns at
\* most one temporary file; the file it is writing or uploading exists and
\* is its own, so no two invocations hold the same path and no cleanup of
\* another has removed it; an ended invocation that made a file has removed
\* it once; and a step of one invocation leaves the locals, the record and
\* the file of every other invocation as they were.
C13_InvocationsIsolated ==
    /\ [](\A i \in Invs :
            /\ Cardinality(Owned(i)) <= 1
            /\ Held(i) # 0 =>
                   (fs[Held(i)].exists /\ fs[Held(i)].owner = i /\ Owned(i) = {Held(i)})
            /\ \A j \in Invs \ {i} : Held(i) # 0 => Held(j) # Held(i)
            /\ (Done(i) /\ obs[i].created # 0) => (obs[i].removed = 1 /\ Owned(i) = {}))
    /\ [][\A i \in Invs :
            (frame'[i] # frame[i] \/ obs'[i] # obs[i]) =>
                \A j \in Invs \ {i} :
                    /\ frame'[j] = frame[j] /\ obs'[j] = obs[j]
                    /\ \A p \in Paths :
                           (fs[p].exists /\ fs[p].owner = j) => fs'[p] = fs[p]]_vars

\* C13 witness: one invocation is uploading its file while another is in
\* the middle of writing its own.
C13_Witness ==
    \E i, j \in Invs :
        /\ i # j
        /\ frame[i].pc = "upload" /\ frame[j].pc = "dl_chunk"
        /\ fs[frame[j].tmp_path].written > 0 /\ frame[j].left > 0
        /\ fs[frame[i].path].ropen

\* C14 (as claimed): for a text that holds a URL of an allow-listed host,
\* the matcher returns the first such URL.
C14_FirstAllowListedUrl ==
    (ret.done /\ RefHasAllowed(arg)) => ret.v = Some(RefAllowedUrls(arg)[1])

\* C15: for a response whose "data" is an object, the resolver returns the
\* value of hdplay when that is non-empty, else of play, else of wmplay,
\* and no media (None) when none of the three is present and non-empty;
\* non-empty is Python's truth value of the field.
C15_FieldPreference ==
    ret.done =>
        LET ne(k) == Truthy(arg.f[k])
            r == ret.v
        IN  /\ ~r.raised
            /\ ne("hdplay") => r.v = arg.f["hdplay"]
            /\ (~ne("hdplay") /\ ne("play")) => r.v = arg.f["play"]
            /\ (~ne("hdplay") /\ ~ne("play") /\ ne("wmplay")) => r.v = arg.f["wmplay"]
            /\ (~ne("hdplay") /\ ~ne("play") /\ ~ne("wmplay")) => r.v = JNull

\* C15 witness: hdplay and play are both non-empty and differ, and the HD
\* value was returned.
C15_Witness ==
    /\ ret.done
    /\ arg.f["hdplay"] = JStr(Url_hd) /\ arg.f["play"] = JStr(Url_sd)
    /\ ret.v.v = JStr(Url_hd)

\* The decimal form of the sender ids used.
RefIdStr(n) ==
    CASE n = 0 -> <<"0">>
      [] n = 14 -> <<"1", "4">>
      [] n = 1203 -> <<"1", "2", "0", "3">>

\* C16: the identity formatter never returns an empty value: "@" + handle
\* when the handle is non-empty; otherwise the non-empty ones of first and
\* last name joined by a blank; otherwise the decimal form of the id; and
\* "unknown" when there is no sender record.
C16_DisplayNameTotal ==
    ret.done =>
        LET h == TruthyStr(arg.username)
            f == TruthyStr(arg.first_name)
            l == TruthyStr(arg.last_name)
        IN  /\ Len(ret.v) > 0
            /\ ~arg.present => ret.v = <<"u", "n", "k", "n", "o", "w", "n">>
            /\ (arg.present /\ h) => ret.v = <<"@">> \o arg.username.v
            /\ (arg.present /\ ~h /\ f /\ l) =>
                   ret.v = arg.first_name.v \o <<" ">> \o arg.last_name.v
            /\ (arg.present /\ ~h /\ f /\ ~l) => ret.v = arg.first_name.v
            /\ (arg.present /\ ~h /\ ~f /\ l) => ret.v = arg.last_name.v
            /\ (arg.present /\ ~h /\ ~f /\ ~l) => ret.v = RefIdStr(arg.id)

\* C16 witness: a sender whose handle and names are all empty strings was
\* formatted as its id.
C16_Witness ==
    /\ ret.done /\ arg.present
    /\ arg.username = Some(<<>>) /\ arg.first_name = Some(<<>>)
    /\ arg.last_name = Some(<<>>) /\ arg.id = 1203
    /\ ret.v = <<"1", "2", "0", "3">>

\* "Sent by: "
SpecCaptionPrefix == <<"S", "e", "n", "t", " ", "b", "y", ":", " ">>

\* C17 (as claimed): the caption of every send_video is "Sent by: "
\* followed by the identity formatter's value for the message's sender.
C17_CaptionSentBy ==
    \A i \in Invs : \A k \in CallIdx(i) :
        obs[i].calls[k].op = "send_video" =>
            obs[i].calls[k].caption =
                SpecCaptionPrefix \o _display_name_from_msg(frame[i].msg)

\* C19: an invocation that has started eventually ends, and it ends
\* discarded, with the notice sent, with the reference send or the upload
\* succeeded, or with an exception.
C19_Terminates ==
    /\ [](\A i \in Invs :
            /\ frame[i].pc \in
                 {"idle", "delete", "chat_action", "resolve_get", "resolve_json",
                  "notice", "send_url", "dl_get", "dl_chunk", "upload", "done"}
            /\ Done(i) <=> frame[i].outcome \in
                 {"discarded", "noticed", "ref_sent", "uploaded", "exception"})
    /\ \A i \in Invs : (frame[i].pc # "idle") ~> Done(i)

\* C19 witness: an invocation went the longest way, through delete, signal,
\* lookup, failed reference send, a download of MaxChunks chunks and the
\* upload, and ended.
C19_Witness ==
    \E i \in Invs :
        /\ Done(i) /\ frame[i].outcome = "uploaded"
        /\ obs[i].total = MaxChunks /\ Len(obs[i].calls) = 4 /\ Len(obs[i].gets) = 2
=============================================================================
